---- MODULE Spec2Model ----
(***************************************************************************)
(* Model of notebook/1.registration.ipynb: the pairwise registration cells *)
(* (RANSAC, FGR, ICP), the multiway registration cells (pose graph         *)
(* builder, global optimization, aligned clouds) and the visualization     *)
(* helpers.  The registration engine the notebook calls (ICP, RANSAC, the  *)
(* pose-graph optimizer) is modelled from spec.md sections 4.4, 4.6, 4.7.  *)
(*                                                                         *)
(* Geometry is restricted to one axis in fixed-point units: a point has    *)
(* an integer coordinate y, and a rigid transform is the homogeneous       *)
(* matrix [[s, t], [0, 1]] with s in {1, -1} (a half-turn about an axis    *)
(* perpendicular to y) and integer translation t, written <<s, t>>.        *)
(* These matrices do not commute.  Python objects live in `heap`; names    *)
(* hold addresses, so aliasing and in-place mutation are visible.          *)
(***************************************************************************)
EXTENDS Integers, Sequences, FiniteSets, TLC

VARIABLES
    pc,             \* the notebook cell (and step inside it) to run next
    raised,         \* set of <<cell, exception>> of the cells that raised
    names,          \* the global names bound so far in the kernel
    files,          \* o3d.data.DemoICPPointClouds().paths, as the clouds stored
    heap,           \* address -> point cloud object
    src_pcd, tgt_pcd,   \* addresses (cell 5)
    result_ransac,  \* transformation of the RANSAC result (cell 7)
    pcds,           \* list of addresses (cell 13)
    pcd_combined,   \* address (cells 13 and 17)
    i,              \* loop variable of the combining loops
    pose_graph,     \* [nodes: Seq(pose), edges: Seq(edge)]
    odometry,       \* running cumulative pose in multiway_registration
    source_id, target_id,   \* loop position in multiway_registration
    pcds_aligned,   \* list of addresses (cell 16)
    opt_iter,       \* optimize-then-prune passes done by global_optimization
    line_process,   \* edge index -> line-process weight of the last pass
    icp,            \* state of one registration_icp run
    ransac          \* state of one RANSAC run

vars == <<pc, raised, names, files, heap, src_pcd, tgt_pcd, result_ransac, pcds,
          pcd_combined, i, pose_graph, odometry, source_id, target_id,
          pcds_aligned, opt_iter, line_process, icp, ransac>>

pipelineVars == <<pc, raised, names, files, heap, src_pcd, tgt_pcd, result_ransac,
                  pcds, pcd_combined, i, pose_graph, odometry, source_id,
                  target_id, pcds_aligned, opt_iter, line_process>>

----------------------------------------------------------------------------
(* Bounds of the model *)

\* largest number of files in the dataset (fragments)
MaxFragments == 3
\* ICP iteration budget (max_iteration of the convergence criteria)
MaxIteration == 3
\* RANSAC iteration budget (max_iterations of the convergence criteria)
MaxRansacIteration == 3
\* cap on the optimizer's optimize-then-prune passes
MaxOptIteration == 3

(* Program constants, in fixed-point units of 1 cm and 1/100 *)
VOXEL_SIZE == 2
edge_prune_threshold == 25
reference_node == 0

----------------------------------------------------------------------------
(* Rigid transforms: np.identity, np.dot, np.linalg.inv *)

Identity == <<1, 0>>

Dot(A, B) == <<A[1] * B[1], A[1] * B[2] + A[2]>>

Inv(A) == <<A[1], -(A[1] * A[2])>>

ApplyTransform(A, y) == A[1] * y + A[2]

\* the transforms a registration call may return: a shift and a half-turn,
\* which do not commute
Transforms == {<<1, 1>>, <<-1, 0>>}

\* the corrections the optimizer may apply to a pose
PoseCorrections == {<<1, 0>>, <<1, 1>>}

\* line-process weights in 1/100: below, at and above edge_prune_threshold
LineProcessWeights == {0, 25, 100}

----------------------------------------------------------------------------
(* Point clouds: [pts: Seq([f, y, c]), normals: "none" | "file" | "estimated"] *)

RECURSIVE SumY(_)
SumY(pts) == IF pts = <<>> THEN 0 ELSE Head(pts).y + SumY(Tail(pts))

HasNormals(cloud) == cloud.normals # "none"

GetCenter(cloud) ==
    IF cloud.pts = <<>> THEN 0 ELSE SumY(cloud.pts) \div Len(cloud.pts)

Translate(cloud, d) ==
    [cloud EXCEPT !.pts = [k \in DOMAIN cloud.pts |->
                               [cloud.pts[k] EXCEPT !.y = @ + d]]]

\* rotation by get_rotation_matrix_from_xyz([0, pi, pi]) about the center:
\* on the y axis it is the half-turn y -> 2 * center - y
RotateHalfTurn(cloud) ==
    LET c == GetCenter(cloud)
    IN [cloud EXCEPT !.pts = [k \in DOMAIN cloud.pts |->
                                  [cloud.pts[k] EXCEPT !.y = 2 * c - @]]]

TransformCloud(cloud, T) ==
    [cloud EXCEPT !.pts = [k \in DOMAIN cloud.pts |->
                               [cloud.pts[k] EXCEPT !.y = ApplyTransform(T, @)]]]

PaintUniformColor(cloud, color) ==
    [cloud EXCEPT !.pts = [k \in DOMAIN cloud.pts |->
                               [cloud.pts[k] EXCEPT !.c = color]]]

EstimateNormals(cloud) == [cloud EXCEPT !.normals = "estimated"]

\* PointCloud.__add__ / __iadd__: the points of both; normals survive only
\* when both sides carry them
AddClouds(a, b) ==
    [pts     |-> a.pts \o b.pts,
     normals |-> IF (a.pts = <<>> \/ HasNormals(a)) /\ HasNormals(b)
                 THEN (IF a.pts = <<>> THEN b.normals ELSE a.normals)
                 ELSE "none"]

\* voxel_down_sample: one point per occupied voxel, the mean of its points
VoxelOf(y, voxel_size) == y \div voxel_size

VoxelDownSample(cloud, voxel_size) ==
    LET occupied == {VoxelOf(cloud.pts[k].y, voxel_size) : k \in DOMAIN cloud.pts}
        InVoxel(v) == LET P(p) == VoxelOf(p.y, voxel_size) = v
                      IN SelectSeq(cloud.pts, P)
        Mean(v) == [f |-> InVoxel(v)[1].f,
                    y |-> SumY(InVoxel(v)) \div Len(InVoxel(v)),
                    c |-> InVoxel(v)[1].c]
        RECURSIVE Ordered(_)
        Ordered(S) == IF S = {} THEN <<>>
                      ELSE LET m == CHOOSE x \in S : \A z \in S : x <= z
                           IN <<Mean(m)>> \o Ordered(S \ {m})
    IN [pts |-> Ordered(occupied), normals |-> cloud.normals]

\* the stored cloud of file k (0-based): three points, two of them in one voxel
FileCloud(k, normals) ==
    [pts |-> <<[f |-> k, y |-> 4 * k,     c |-> "file"],
               [f |-> k, y |-> 4 * k + 1, c |-> "file"],
               [f |-> k, y |-> 4 * k + 7, c |-> "file"]>>,
     normals |-> normals]

----------------------------------------------------------------------------
(* The heap of Python objects *)

Alloc(h, cloud) == Append(h, cloud)

Store(h, a, cloud) == [h EXCEPT ![a] = cloud]

\* copy.deepcopy(obj): a new object with the same value
DeepCopy(h, a) == Alloc(h, h[a])

\* the values a list of addresses refers to
Values(h, addrs) == [k \in DOMAIN addrs |-> h[addrs[k]]]

----------------------------------------------------------------------------
(* The registration engine as the notebook sees it: one call, one outcome *)

MissingPrerequisite == [ok |-> FALSE, error |-> "MissingPrerequisite"]

\* registration_icp(source, target, distance, init, estimation): fails when
\* point-to-plane is requested and the target has no normals; otherwise a
\* result whose transformation the iteration decides
registration_icp(source, target, init, estimation) ==
    IF estimation = "PointToPlane" /\ ~HasNormals(target)
    THEN {MissingPrerequisite}
    ELSE {[ok |-> TRUE, transformation |-> T] : T \in Transforms}

\* compute_fpfh_feature(cloud, ...): one descriptor per point, needs normals
compute_fpfh_feature(cloud) ==
    IF ~HasNormals(cloud) THEN MissingPrerequisite
    ELSE [ok |-> TRUE, num |-> Len(cloud.pts)]

\* registration_ransac_based_on_feature_matching / registration_fgr_...:
\* a result whose transformation the sampling / optimization decides
global_registration(src, src_feature, tgt, tgt_feature) ==
    {[ok |-> TRUE, transformation |-> T] : T \in Transforms}

\* get_information_matrix_from_point_clouds: grows with the number of source
\* points that land within the distance of a target point
Abs(x) == IF x < 0 THEN -x ELSE x

get_information_matrix_from_point_clouds(source, target, distance, T) ==
    Cardinality({k \in DOMAIN source.pts :
                    \E m \in DOMAIN target.pts :
                        Abs(ApplyTransform(T, source.pts[k].y) - target.pts[m].y)
                            <= distance})

----------------------------------------------------------------------------
(* Cell 2-4: preprocess_pcd, visualize, draw_registration_results *)

preprocess_pcd(pcd, voxel_size) ==
    LET pcd_down == EstimateNormals(VoxelDownSample(pcd, voxel_size))
    IN [pcd_down |-> pcd_down, feature |-> compute_fpfh_feature(pcd_down)]

\* visualize(pcd): translate and rotate return the object they changed, so the
\* caller's object is normalized in place
visualize(h, a) ==
    LET translated == Translate(h[a], -GetCenter(h[a]))
    IN Store(h, a, RotateHalfTurn(translated))

\* draw_registration_results(src, tgt, trans): works on deep copies; its
\* locals are dropped on return
draw_registration_results(h, src, tgt, trans) ==
    LET h1 == DeepCopy(DeepCopy(h, src), tgt)
        src_copy == Len(h) + 1
        tgt_copy == Len(h) + 2
        h2 == Store(h1, src_copy,
                    TransformCloud(EstimateNormals(
                        PaintUniformColor(h1[src_copy], "src")), trans))
        h3 == Store(h2, tgt_copy,
                    EstimateNormals(PaintUniformColor(h2[tgt_copy], "tgt")))
        h4 == Alloc(h3, AddClouds(h3[src_copy], h3[tgt_copy]))
        pcd == Len(h) + 3
        h5 == Store(h4, pcd, Translate(h4[pcd], -GetCenter(h4[pcd])))
        h6 == visualize(h5, pcd)
    IN SubSeq(h6, 1, Len(h))

----------------------------------------------------------------------------
(* Running the cells.  A cell that raises leaves the names it bound before *)
(* the exception; the next cell can still be run.                          *)

Raise(cell, exc) == raised' = raised \cup {<<cell, exc>>}

\* cell 5: prepare_dataset(VOXEL_SIZE), draw "before registration"
Cell5 ==
    /\ pc = "cell5"
    /\ pc' = "cell7"
    /\ IF Len(files) < 2
       THEN /\ Raise("cell5", "IndexError")
            /\ UNCHANGED <<names, heap, src_pcd, tgt_pcd>>
       ELSE LET s  == preprocess_pcd(files[1], VOXEL_SIZE)
                t  == preprocess_pcd(files[2], VOXEL_SIZE)
                h1 == Alloc(Alloc(heap, s.pcd_down), t.pcd_down)
            IN /\ src_pcd' = Len(heap) + 1
               /\ tgt_pcd' = Len(heap) + 2
               /\ heap' = draw_registration_results(h1, Len(heap) + 1,
                                                    Len(heap) + 2, Identity)
               /\ names' = names \cup {"src_pcd", "src_feature",
                                       "tgt_pcd", "tgt_feature"}
               /\ UNCHANGED raised
    /\ UNCHANGED <<files, result_ransac, pcds, pcd_combined, i, pose_graph,
                   odometry, source_id, target_id, pcds_aligned, opt_iter,
                   line_process, icp, ransac>>

\* cell 7: global_registration_by_ransac, draw
Cell7 ==
    /\ pc = "cell7"
    /\ pc' = "cell9"
    /\ IF "src_pcd" \notin names
       THEN /\ Raise("cell7", "NameError")
            /\ UNCHANGED <<names, heap, result_ransac>>
       ELSE \E r \in global_registration(heap[src_pcd], Len(heap[src_pcd].pts),
                                         heap[tgt_pcd], Len(heap[tgt_pcd].pts)) :
               /\ result_ransac' = r.transformation
               /\ heap' = draw_registration_results(heap, src_pcd, tgt_pcd,
                                                    r.transformation)
               /\ names' = names \cup {"result_ransac"}
               /\ UNCHANGED raised
    /\ UNCHANGED <<files, src_pcd, tgt_pcd, pcds, pcd_combined, i, pose_graph,
                   odometry, source_id, target_id, pcds_aligned, opt_iter,
                   line_process, icp, ransac>>

\* cell 9: global_registration_by_fgr, draw (result_fgr is not read again)
Cell9 ==
    /\ pc = "cell9"
    /\ pc' = "cell11"
    /\ IF "src_pcd" \notin names
       THEN /\ Raise("cell9", "NameError")
            /\ UNCHANGED <<names, heap>>
       ELSE \E r \in global_registration(heap[src_pcd], Len(heap[src_pcd].pts),
                                         heap[tgt_pcd], Len(heap[tgt_pcd].pts)) :
               /\ heap' = draw_registration_results(heap, src_pcd, tgt_pcd,
                                                    r.transformation)
               /\ names' = names \cup {"result_fgr"}
               /\ UNCHANGED raised
    /\ UNCHANGED <<files, src_pcd, tgt_pcd, result_ransac, pcds, pcd_combined,
                   i, pose_graph, odometry, source_id, target_id, pcds_aligned,
                   opt_iter, line_process, icp, ransac>>

\* local_registration_by_icp: point-to-plane ICP from trans_init
local_registration_by_icp(src, tgt, trans_init) ==
    registration_icp(src, tgt, trans_init, "PointToPlane")

\* cell 11: local_registration_by_icp from the RANSAC result, draw
\* (result_local is not read again)
Cell11 ==
    /\ pc = "cell11"
    /\ pc' = "cell13"
    /\ IF "result_ransac" \notin names
       THEN /\ Raise("cell11", "NameError")
            /\ UNCHANGED <<names, heap>>
       ELSE \E r \in local_registration_by_icp(heap[src_pcd], heap[tgt_pcd],
                                               result_ransac) :
               IF ~r.ok
               THEN /\ Raise("cell11", r.error)
                    /\ UNCHANGED <<names, heap>>
               ELSE /\ heap' = draw_registration_results(heap, src_pcd, tgt_pcd,
                                                         r.transformation)
                    /\ names' = names \cup {"result_local"}
                    /\ UNCHANGED raised
    /\ UNCHANGED <<files, src_pcd, tgt_pcd, result_ransac, pcds, pcd_combined,
                   i, pose_graph, odometry, source_id, target_id, pcds_aligned,
                   opt_iter, line_process, icp, ransac>>

----------------------------------------------------------------------------
(* Cell 12-13: prepare_multiway_dataset and the unaligned combined cloud *)

\* prepare_multiway_dataset(voxel_size): the heap with one downsampled cloud
\* per file appended, in file order
RECURSIVE prepare_multiway_dataset(_, _, _)
prepare_multiway_dataset(h, paths, voxel_size) ==
    IF paths = <<>> THEN h
    ELSE prepare_multiway_dataset(Alloc(h, VoxelDownSample(Head(paths), voxel_size)),
                                  Tail(paths), voxel_size)

\* lines 472-478: pcds, then pcd_combined = copy.deepcopy(pcds[0])
Cell13 ==
    /\ pc = "cell13"
    /\ LET h1 == prepare_multiway_dataset(heap, files, VOXEL_SIZE)
           ps == [k \in 1..Len(files) |-> Len(heap) + k]
       IN /\ pcds' = ps
          /\ IF ps = <<>>
             THEN /\ Raise("cell13", "IndexError")
                  /\ heap' = h1
                  /\ names' = names \cup {"pcds"}
                  /\ pc' = "cell15"
                  /\ UNCHANGED <<pcd_combined, i>>
             ELSE /\ heap' = DeepCopy(h1, ps[1])
                  /\ pcd_combined' = Len(h1) + 1
                  /\ names' = names \cup {"pcds", "pcd_combined"}
                  /\ i' = 0
                  /\ pc' = "cell13_loop"
                  /\ UNCHANGED raised
    /\ UNCHANGED <<files, src_pcd, tgt_pcd, result_ransac, pose_graph, odometry,
                   source_id, target_id, pcds_aligned, opt_iter, line_process,
                   icp, ransac>>

\* lines 479-480: for i in range(len(pcds) - 1): pcd_combined += deepcopy(pcds[i])
Cell13Loop ==
    /\ pc = "cell13_loop"
    /\ i < Len(pcds) - 1
    /\ heap' = Store(heap, pcd_combined,
                     AddClouds(heap[pcd_combined], heap[pcds[i + 1]]))
    /\ i' = i + 1
    /\ UNCHANGED <<pc, raised, names, files, src_pcd, tgt_pcd, result_ransac,
                   pcds, pcd_combined, pose_graph, odometry, source_id,
                   target_id, pcds_aligned, opt_iter, line_process, icp, ransac>>

\* line 481: visualize(pcd_combined)
Cell13Vis ==
    /\ pc = "cell13_loop"
    /\ i >= Len(pcds) - 1
    /\ heap' = visualize(heap, pcd_combined)
    /\ pc' = "cell15"
    /\ UNCHANGED <<raised, names, files, src_pcd, tgt_pcd, result_ransac, pcds,
                   pcd_combined, i, pose_graph, odometry, source_id, target_id,
                   pcds_aligned, opt_iter, line_process, icp, ransac>>

----------------------------------------------------------------------------
(* Cell 14: pairwise_registration and multiway_registration *)

max_correspondence_distance_coarse == VOXEL_SIZE * 15

max_correspondence_distance_fine == (VOXEL_SIZE * 3) \div 2

\* pairwise_registration with source and target exchanged in the ICP calls
pairwise_registration_swapped(source, target) ==
    UNION {IF ~icp_coarse.ok THEN {icp_coarse}
           ELSE {IF ~icp_fine.ok THEN icp_fine
                 ELSE [ok             |-> TRUE,
                       transformation |-> icp_fine.transformation,
                       information    |-> get_information_matrix_from_point_clouds(
                                              source, target,
                                              max_correspondence_distance_fine,
                                              icp_fine.transformation)]
                 : icp_fine \in registration_icp(target, source,
                                                 icp_coarse.transformation,
                                                 "PointToPlane")}
           : icp_coarse \in registration_icp(target, source, Identity,
                                             "PointToPlane")}

\* pairwise_registration(source, target, ...): coarse then fine point-to-plane
\* ICP of source onto target, then the information matrix of the fine result
pairwise_registration(source, target) ==
    UNION {IF ~icp_coarse.ok THEN {icp_coarse}
           ELSE {IF ~icp_fine.ok THEN icp_fine
                 ELSE [ok             |-> TRUE,
                       transformation |-> icp_fine.transformation,
                       information    |-> get_information_matrix_from_point_clouds(
                                              source, target,
                                              max_correspondence_distance_fine,
                                              icp_fine.transformation)]
                 : icp_fine \in registration_icp(source, target,
                                                 icp_coarse.transformation,
                                                 "PointToPlane")}
           : icp_coarse \in registration_icp(source, target, Identity,
                                             "PointToPlane")}

\* the inner loop started at source_id instead of source_id + 1
TargetRangeFromSource(source, n_pcds) == source..(n_pcds - 1)

\* for target_id in range(source_id + 1, n_pcds)
TargetRange(source, n_pcds) == (source + 1)..(n_pcds - 1)

\* the (source_id, target_id) pairs the two loops visit, and their order
LoopPairs(n_pcds) ==
    {p \in (0..(n_pcds - 1)) \X (0..(n_pcds - 1)) :
        p[2] \in TargetRange(p[1], n_pcds)}

LoopBefore(p, q) == p[1] < q[1] \/ (p[1] = q[1] /\ p[2] < q[2])

PairsAfter(p, n_pcds) == {q \in LoopPairs(n_pcds) : LoopBefore(p, q)}

FirstPair(S) == CHOOSE p \in S : \A q \in S : q = p \/ LoopBefore(p, q)

\* the odometry case taken one fragment too late
IsOdometrySkipOne(source, target) == target = source + 2

\* if target_id == source_id + 1:  # odometry case
IsOdometry(source, target) == target = source + 1

\* the product taken in the other order
UpdateOdometryReversed(transformation_icp, odo) == Dot(odo, transformation_icp)

\* odometry = np.dot(transformation_icp, odometry)
UpdateOdometry(transformation_icp, odo) == Dot(transformation_icp, odo)

\* the odometry edge flagged as a loop closure
OdometryEdgeUncertain(source, target, transformation, information) ==
    [source_node_id |-> source, target_node_id |-> target,
     transformation |-> transformation, information |-> information,
     uncertain |-> TRUE]

OdometryEdge(source, target, transformation, information) ==
    [source_node_id |-> source, target_node_id |-> target,
     transformation |-> transformation, information |-> information,
     uncertain |-> FALSE]

\* the loop-closure edge flagged as odometry
LoopClosureEdgeCertain(source, target, transformation, information) ==
    [source_node_id |-> source, target_node_id |-> target,
     transformation |-> transformation, information |-> information,
     uncertain |-> FALSE]

LoopClosureEdge(source, target, transformation, information) ==
    [source_node_id |-> source, target_node_id |-> target,
     transformation |-> transformation, information |-> information,
     uncertain |-> TRUE]

EmptyPoseGraph == [nodes |-> <<>>, edges |-> <<>>]

\* lines 540-563: what one registered pair adds to the graph
AddPair(graph, odo, source, target, r) ==
    IF IsOdometry(source, target)
    THEN LET odo2 == UpdateOdometry(r.transformation, odo)
         IN [odometry   |-> odo2,
             pose_graph |-> [nodes |-> Append(graph.nodes, Inv(odo2)),
                             edges |-> Append(graph.edges,
                                          OdometryEdge(source, target,
                                              r.transformation, r.information))]]
    ELSE [odometry   |-> odo,
          pose_graph |-> [graph EXCEPT !.edges = Append(@,
                                          LoopClosureEdge(source, target,
                                              r.transformation, r.information))]]

\* cell 15, lines 530-533: the graph with node 0, then the first pair
Cell15 ==
    /\ pc = "cell15"
    /\ IF "pcds" \notin names
       THEN /\ Raise("cell15", "NameError")
            /\ pc' = "cell16"
            /\ UNCHANGED <<pose_graph, odometry, source_id, target_id>>
       ELSE /\ odometry' = Identity
            /\ pose_graph' = [nodes |-> <<Identity>>, edges |-> <<>>]
            /\ IF LoopPairs(Len(pcds)) = {}
               THEN /\ pc' = "cell15_ret"
                    /\ UNCHANGED <<source_id, target_id>>
               ELSE /\ pc' = "cell15_loop"
                    /\ source_id' = FirstPair(LoopPairs(Len(pcds)))[1]
                    /\ target_id' = FirstPair(LoopPairs(Len(pcds)))[2]
            /\ UNCHANGED raised
    /\ UNCHANGED <<names, files, heap, src_pcd, tgt_pcd, result_ransac, pcds,
                   pcd_combined, i, pcds_aligned, opt_iter, line_process, icp,
                   ransac>>

\* lines 534-563: one pass of the inner loop body
MultiwayPair ==
    /\ pc = "cell15_loop"
    /\ \E r \in pairwise_registration(heap[pcds[source_id + 1]],
                                      heap[pcds[target_id + 1]]) :
          IF ~r.ok
          THEN /\ Raise("cell15", r.error)
               /\ pc' = "cell16"
               /\ pose_graph' = EmptyPoseGraph
               /\ UNCHANGED <<odometry, source_id, target_id>>
          ELSE /\ pose_graph' = AddPair(pose_graph, odometry, source_id,
                                        target_id, r).pose_graph
               /\ odometry' = AddPair(pose_graph, odometry, source_id,
                                      target_id, r).odometry
               /\ LET rest == PairsAfter(<<source_id, target_id>>, Len(pcds))
                  IN IF rest = {}
                     THEN /\ pc' = "cell15_ret"
                          /\ UNCHANGED <<source_id, target_id>>
                     ELSE /\ pc' = "cell15_loop"
                          /\ source_id' = FirstPair(rest)[1]
                          /\ target_id' = FirstPair(rest)[2]
               /\ UNCHANGED raised
    /\ UNCHANGED <<names, files, heap, src_pcd, tgt_pcd, result_ransac, pcds,
                   pcd_combined, i, pcds_aligned, opt_iter, line_process, icp,
                   ransac>>

\* line 564 and cell 15: pose_graph = multiway_registration(...)
MultiwayReturn ==
    /\ pc = "cell15_ret"
    /\ names' = names \cup {"pose_graph"}
    /\ pc' = "cell16"
    /\ UNCHANGED <<raised, files, heap, src_pcd, tgt_pcd, result_ransac, pcds,
                   pcd_combined, i, pose_graph, odometry, source_id, target_id,
                   pcds_aligned, opt_iter, line_process, icp, ransac>>

----------------------------------------------------------------------------
(* Cell 16: global_optimization, then pcds_aligned *)

\* an edge is dropped when it is uncertain and its line-process weight after
\* the pass is below the threshold
PruneEdge(edge, weight) == edge.uncertain /\ weight < edge_prune_threshold

\* the weights a pass may end with: a line process is attached to the
\* uncertain edges only, the others keep the full weight
LineProcess(edges) ==
    LET uncertain == {k \in DOMAIN edges : edges[k].uncertain}
    IN {[k \in DOMAIN edges |-> IF k \in uncertain THEN u[k] ELSE 100] :
           u \in [uncertain -> LineProcessWeights]}

\* the edges a pass keeps, in order
RECURSIVE KeptEdges(_, _, _)
KeptEdges(edges, weights, k) ==
    IF k > Len(edges) THEN <<>>
    ELSE (IF PruneEdge(edges[k], weights[k]) THEN <<>> ELSE <<edges[k]>>)
             \o KeptEdges(edges, weights, k + 1)

\* the loop repeated whatever the number of passes done
OptContinueNoCap(pruned, passes) == pruned

\* the loop goes on while the last pass pruned an edge and the cap is not hit
OptContinue(pruned, passes) == pruned /\ passes < MaxOptIteration

\* the pose sets the optimizer may return: the reference node is held fixed
OptimizedPoses(nodes) ==
    LET free == DOMAIN nodes \ {reference_node + 1}
    IN {[k \in DOMAIN nodes |-> IF k \in free THEN Dot(c[k], nodes[k])
                                ELSE nodes[k]] :
           c \in [free -> PoseCorrections]}

\* cell 16, lines 615-620: the options, entering global_optimization
Cell16 ==
    /\ pc = "cell16"
    /\ IF "pose_graph" \notin names
       THEN /\ Raise("cell16", "NameError")
            /\ pc' = "cell17"
            /\ UNCHANGED <<opt_iter, line_process>>
       ELSE /\ opt_iter' = 0
            /\ line_process' = <<>>
            /\ pc' = "cell16_opt"
            /\ UNCHANGED raised
    /\ UNCHANGED <<names, files, heap, src_pcd, tgt_pcd, result_ransac, pcds,
                   pcd_combined, i, pose_graph, odometry, source_id, target_id,
                   pcds_aligned, icp, ransac>>

\* one optimize-then-prune pass: optimize, weigh every edge, prune; go on only
\* while the pass pruned an edge and the cap is not reached
OptPass ==
    /\ pc = "cell16_opt"
    /\ \E w \in LineProcess(pose_graph.edges) :
          LET kept == KeptEdges(pose_graph.edges, w, 1)
          IN /\ line_process' = w
             /\ pose_graph' = [pose_graph EXCEPT !.edges = kept]
             /\ opt_iter' = opt_iter + 1
             /\ pc' = IF Len(kept) = Len(pose_graph.edges) THEN "cell16_converged"
                      ELSE IF OptContinue(TRUE, opt_iter + 1) THEN "cell16_opt"
                           ELSE "cell16_exhausted"
    /\ UNCHANGED <<raised, names, files, heap, src_pcd, tgt_pcd, result_ransac,
                   pcds, pcd_combined, i, odometry, source_id, target_id,
                   pcds_aligned, icp, ransac>>

\* global_optimization returns: the node poses are the best pose set found
OptReturn ==
    /\ pc \in {"cell16_converged", "cell16_exhausted"}
    /\ \E p \in OptimizedPoses(pose_graph.nodes) :
          pose_graph' = [pose_graph EXCEPT !.nodes = p]
    /\ line_process' = <<>>
    /\ pc' = "cell16_align"
    /\ UNCHANGED <<raised, names, files, heap, src_pcd, tgt_pcd, result_ransac,
                   pcds, pcd_combined, i, odometry, source_id, target_id,
                   pcds_aligned, opt_iter, icp, ransac>>

\* lines 626-628: deep copies of pcds, each transformed by its node's pose
Cell16Align ==
    /\ pc = "cell16_align"
    /\ heap' = heap \o [k \in DOMAIN pcds |->
                           TransformCloud(heap[pcds[k]], pose_graph.nodes[k])]
    /\ pcds_aligned' = [k \in DOMAIN pcds |-> Len(heap) + k]
    /\ names' = names \cup {"pcds_aligned"}
    /\ pc' = "cell17"
    /\ UNCHANGED <<raised, files, src_pcd, tgt_pcd, result_ransac, pcds,
                   pcd_combined, i, pose_graph, odometry, source_id, target_id,
                   opt_iter, line_process, icp, ransac>>

----------------------------------------------------------------------------
(* Cell 17: the aligned combined cloud *)

\* line 664: pcd_combined = pcds_aligned[0]
Cell17 ==
    /\ pc = "cell17"
    /\ IF "pcds_aligned" \notin names
       THEN /\ Raise("cell17", "NameError")
            /\ pc' = "done"
            /\ UNCHANGED <<names, pcd_combined, i>>
       ELSE IF pcds_aligned = <<>>
            THEN /\ Raise("cell17", "IndexError")
                 /\ pc' = "done"
                 /\ UNCHANGED <<names, pcd_combined, i>>
            ELSE /\ pcd_combined' = pcds_aligned[1]
                 /\ names' = names \cup {"pcd_combined"}
                 /\ i' = 0
                 /\ pc' = "cell17_loop"
                 /\ UNCHANGED raised
    /\ UNCHANGED <<files, heap, src_pcd, tgt_pcd, result_ransac, pcds,
                   pose_graph, odometry, source_id, target_id, pcds_aligned,
                   opt_iter, line_process, icp, ransac>>

\* lines 665-666: pcd_combined += copy.deepcopy(pcds_aligned[i])
Cell17Loop ==
    /\ pc = "cell17_loop"
    /\ i < Len(pcds) - 1
    /\ heap' = Store(heap, pcd_combined,
                     AddClouds(heap[pcd_combined], heap[pcds_aligned[i + 1]]))
    /\ i' = i + 1
    /\ UNCHANGED <<pc, raised, names, files, src_pcd, tgt_pcd, result_ransac,
                   pcds, pcd_combined, pose_graph, odometry, source_id,
                   target_id, pcds_aligned, opt_iter, line_process, icp, ransac>>

\* line 668: visualize(pcd_combined)
Cell17Vis ==
    /\ pc = "cell17_loop"
    /\ i >= Len(pcds) - 1
    /\ heap' = visualize(heap, pcd_combined)
    /\ pc' = "done"
    /\ UNCHANGED <<raised, names, files, src_pcd, tgt_pcd, result_ransac, pcds,
                   pcd_combined, i, pose_graph, odometry, source_id, target_id,
                   pcds_aligned, opt_iter, line_process, icp, ransac>>

----------------------------------------------------------------------------
(* The notebook run from the top *)

IcpIdle == [pc |-> "idle"]

RansacIdle == [pc |-> "idle"]

\* the datasets: up to MaxFragments files, each stored with or without normals
Datasets ==
    UNION {{[k \in 1..n |-> FileCloud(k - 1, nm[k])] :
               nm \in [1..n -> {"none", "file"}]} : n \in 0..MaxFragments}

Init ==
    /\ pc = "cell5"
    /\ raised = {}
    /\ names = {}
    /\ files \in Datasets
    /\ heap = <<>>
    /\ src_pcd = 0
    /\ tgt_pcd = 0
    /\ result_ransac = Identity
    /\ pcds = <<>>
    /\ pcd_combined = 0
    /\ i = 0
    /\ pose_graph = EmptyPoseGraph
    /\ odometry = Identity
    /\ source_id = 0
    /\ target_id = 0
    /\ pcds_aligned = <<>>
    /\ opt_iter = 0
    /\ line_process = <<>>
    /\ icp = IcpIdle
    /\ ransac = RansacIdle

Next ==
    \/ Cell5
    \/ Cell7
    \/ Cell9
    \/ Cell11
    \/ Cell13
    \/ Cell13Loop
    \/ Cell13Vis
    \/ Cell15
    \/ MultiwayPair
    \/ MultiwayReturn
    \/ Cell16
    \/ OptPass
    \/ OptReturn
    \/ Cell16Align
    \/ Cell17
    \/ Cell17Loop
    \/ Cell17Vis

Spec == Init /\ [][Next]_vars

----------------------------------------------------------------------------
(* Properties of multiway_registration (cell 14-15) *)

Range(seq) == {seq[k] : k \in DOMAIN seq}

InBuilder == pc \in {"cell15_loop", "cell15_ret"}

\* the fragment pairs (a, b), a < b, of n fragments
FragmentPairs(n) == {p \in (0..(n - 1)) \X (0..(n - 1)) : p[1] < p[2]}

\* the pairs pairwise_registration has returned for, at the current loop position
RegisteredPairs ==
    IF pc = "cell15_ret" THEN FragmentPairs(Len(pcds))
    ELSE {p \in FragmentPairs(Len(pcds)) :
             p[1] < source_id \/ (p[1] = source_id /\ p[2] < target_id)}

EdgePair(e) == <<e.source_node_id, e.target_node_id>>

\* C1: the pose graph multiway_registration returns has exactly one node per
\* input fragment, for every number of fragments including 0 and 1
C1_OneNodePerFragment ==
    pc = "cell15_ret" => Len(pose_graph.nodes) = Len(pcds)

\* C2: the edges are exactly the registered pairs (i, j), i < j, one edge each,
\* and the edge of (i, j) is certain exactly when j = i + 1 and uncertain
\* exactly when j > i + 1
C2_EdgePerRegisteredPair ==
    InBuilder =>
        /\ Len(pose_graph.edges) = Cardinality(RegisteredPairs)
        /\ {EdgePair(e) : e \in Range(pose_graph.edges)} = RegisteredPairs
        /\ \A e \in Range(pose_graph.edges) :
              /\ (~e.uncertain) <=> (e.target_node_id = e.source_node_id + 1)
              /\ e.uncertain <=> (e.target_node_id > e.source_node_id + 1)

C2_Witness ==
    /\ pc = "cell15_ret"
    /\ Len(pcds) = 3
    /\ Len(pose_graph.edges) = 3
    /\ \E e \in Range(pose_graph.edges) : e.uncertain
    /\ \E e \in Range(pose_graph.edges) : ~e.uncertain

\* the transformation stored on the edge of the pair (a, b)
EdgeTransform(a, b) ==
    (CHOOSE e \in Range(pose_graph.edges) : EdgePair(e) = <<a, b>>).transformation

\* T(k-1, k) * ... * T(0, 1), from the sequential edges only
RECURSIVE Chain(_)
Chain(k) == IF k = 0 THEN Identity ELSE Dot(EdgeTransform(k - 1, k), Chain(k - 1))

\* C3: node 0 is the identity, node k >= 1 is the inverse of
\* T(k-1, k) * ... * T(0, 1), and the running cumulative pose is that product
\* of the sequential transforms alone, whatever the loop closures returned
C3_NodePoseFromOdometryChain ==
    InBuilder =>
        /\ pose_graph.nodes[1] = Identity
        /\ \A k \in 1..(Len(pose_graph.nodes) - 1) :
              pose_graph.nodes[k + 1] = Inv(Chain(k))
        /\ odometry = Chain(Len(pose_graph.nodes) - 1)

C3_Witness ==
    /\ pc = "cell15_ret"
    /\ Len(pose_graph.nodes) = 3
    /\ EdgeTransform(0, 1) # EdgeTransform(1, 2)
    /\ EdgeTransform(0, 2) # EdgeTransform(0, 1)
    /\ pose_graph.nodes[3] # Inv(Dot(EdgeTransform(0, 1), EdgeTransform(1, 2)))

\* the objects a list of addresses refers to are left as they are by a step
Untouched(addrs) == \A k \in DOMAIN addrs : heap'[addrs[k]] = heap[addrs[k]]

\* C4: building the combined cloud and visualizing it leaves every element of
\* pcds and of pcds_aligned unchanged, and draw_registration_results leaves
\* src and tgt unchanged
C4_NoCrossStageMutation ==
    [][/\ pc \in {"cell13", "cell13_loop", "cell17", "cell17_loop"}
            => Untouched(pcds) /\ Untouched(pcds_aligned)
       /\ (pc \in {"cell7", "cell9", "cell11"} /\ "src_pcd" \in names)
            => Untouched(<<src_pcd, tgt_pcd>>)]_vars

\* C5: no edge of the pose graph is a self-edge; the builder always produces
\* source < target
C5_NoSelfEdge ==
    \A e \in Range(pose_graph.edges) :
        /\ e.source_node_id # e.target_node_id
        /\ e.source_node_id < e.target_node_id

C5_Witness ==
    /\ pc = "cell15_ret"
    /\ Len(pcds) = 3
    /\ Len(pose_graph.edges) = 3

\* C6: a point-to-plane ICP call whose target carries no normals fails with
\* MissingPrerequisite: the pairwise registration of that pair raises, adds no
\* edge and returns no pose graph
C6_MissingNormalsFail ==
    [][(pc = "cell15_loop" /\ ~HasNormals(heap[pcds[target_id + 1]]))
          => /\ <<"cell15", "MissingPrerequisite">> \in raised'
             /\ pc' = "cell16"
             /\ pose_graph' = EmptyPoseGraph
             /\ "pose_graph" \notin names']_vars

C6_Witness ==
    /\ pc = "cell16"
    /\ <<"cell15", "MissingPrerequisite">> \in raised
    /\ Len(pcds) >= 2
    /\ HasNormals(heap[pcds[1]])

----------------------------------------------------------------------------
(* global_optimization on the pose graphs the builder makes *)

MaxOptNodes == 4

\* the graph multiway_registration builds when every pair registers with r
RECURSIVE BuildFrom(_, _, _, _)
BuildFrom(graph, odo, rest, r) ==
    IF rest = {} THEN graph
    ELSE LET p    == FirstPair(rest)
             next == AddPair(graph, odo, p[1], p[2], r)
         IN BuildFrom(next.pose_graph, next.odometry, rest \ {p}, r)

BuiltGraphs ==
    {BuildFrom([nodes |-> <<Identity>>, edges |-> <<>>], Identity, LoopPairs(n),
               [ok |-> TRUE, transformation |-> T, information |-> 2]) :
        n \in 1..MaxOptNodes, T \in Transforms}

InitOpt ==
    /\ pc = "cell16_opt"
    /\ raised = {}
    /\ names = {"pcds", "pose_graph"}
    /\ files = <<>>
    /\ heap = <<>>
    /\ src_pcd = 0
    /\ tgt_pcd = 0
    /\ result_ransac = Identity
    /\ pcds = <<>>
    /\ pcd_combined = 0
    /\ i = 0
    /\ pose_graph \in BuiltGraphs
    /\ odometry = Identity
    /\ source_id = 0
    /\ target_id = 0
    /\ pcds_aligned = <<>>
    /\ opt_iter = 0
    /\ line_process = <<>>
    /\ icp = IcpIdle
    /\ ransac = RansacIdle

NextOpt ==
    \/ OptPass
    \/ OptReturn

SpecOpt == InitOpt /\ [][NextOpt]_vars

InOptimizer == pc \in {"cell16_opt", "cell16_converged", "cell16_exhausted"}

\* C8: a pass removes an edge only if the edge is marked uncertain and its
\* line-process weight after the pass is below edge_prune_threshold: an
\* odometry edge is never removed, and an uncertain edge whose weight is at or
\* above the threshold is never removed
C8_PruneOnlyUncertainBelowThreshold ==
    [][InOptimizer =>
          \A k \in DOMAIN pose_graph.edges :
              pose_graph.edges[k] \notin Range(pose_graph'.edges)
                  => /\ pose_graph.edges[k].uncertain
                     /\ line_process'[k] < edge_prune_threshold
                     /\ pose_graph.edges[k].target_node_id
                            # pose_graph.edges[k].source_node_id + 1]_vars

C8_Witness ==
    /\ InOptimizer
    /\ opt_iter = 1
    /\ Len(pose_graph.edges) < Len(line_process)
    /\ \E k \in DOMAIN line_process : line_process[k] = edge_prune_threshold
    /\ \E e \in Range(pose_graph.edges) : e.uncertain
    /\ \E e \in Range(pose_graph.edges) : ~e.uncertain

IsPose(T) == T[1] \in {1, -1} /\ T[2] \in Int

AllPoses(nodes) == \A k \in DOMAIN nodes : IsPose(nodes[k])

\* C9: the optimize-then-prune loop terminates: every pass counts towards the
\* cap and the loop is never stuck before it returns, it repeats only while the
\* last pass pruned an edge and the cap is not reached, the edge set never
\* grows, and it ends converged or exhausted, returning a pose for every node
C9_OptimizerTerminates ==
    /\ [](opt_iter <= MaxOptIteration)
    /\ [][pc = "cell16_opt" =>
             /\ opt_iter' = opt_iter + 1
             /\ Range(pose_graph'.edges) \subseteq Range(pose_graph.edges)
             /\ DOMAIN pose_graph'.nodes = DOMAIN pose_graph.nodes
             /\ pc' \in {"cell16_opt", "cell16_converged", "cell16_exhausted"}
             /\ (pc' = "cell16_opt" =>
                   /\ Len(pose_graph'.edges) < Len(pose_graph.edges)
                   /\ opt_iter' < MaxOptIteration)
             /\ (pc' = "cell16_converged" =>
                   pose_graph'.edges = pose_graph.edges)
             /\ (pc' = "cell16_exhausted" => opt_iter' = MaxOptIteration)]_vars
    /\ [][(pc \in {"cell16_converged", "cell16_exhausted"}) =>
             /\ pc' = "cell16_align"
             /\ pose_graph'.edges = pose_graph.edges
             /\ DOMAIN pose_graph'.nodes = DOMAIN pose_graph.nodes
             /\ AllPoses(pose_graph'.nodes)]_vars
    /\ [](InOptimizer => ENABLED NextOpt)

C9_Witness ==
    /\ pc = "cell16_exhausted"
    /\ opt_iter = MaxOptIteration
    /\ Len(pose_graph.nodes) = 4

----------------------------------------------------------------------------
(* registration_icp as a state machine (spec.md 4.6) *)

FitnessValues == {0, 50, 100}

RmseValues == {0, 1, 2}

\* the incremental pose updates of one iteration; the identity is the
\* fallback of a degenerate solve
IcpUpdates == Transforms \cup {Identity}

NoResult == [ok |-> FALSE, error |-> "none"]

\* relative change below the tolerance of 1e-6
RelativeChangeBelowTolerance(prev, cur) ==
    Abs(prev - cur) * 1000000 < Abs(prev)

IcpConverged(prev_fitness, prev_rmse, fitness, rmse) ==
    /\ RelativeChangeBelowTolerance(prev_fitness, fitness)
    /\ RelativeChangeBelowTolerance(prev_rmse, rmse)

\* the budget test done one iteration too late
IcpExhaustedLate(iterations) == iterations > MaxIteration

IcpExhausted(iterations) == iterations >= MaxIteration

PipelineOff ==
    /\ pc = "off"
    /\ raised = {}
    /\ names = {}
    /\ files = <<>>
    /\ heap = <<>>
    /\ src_pcd = 0
    /\ tgt_pcd = 0
    /\ result_ransac = Identity
    /\ pcds = <<>>
    /\ pcd_combined = 0
    /\ i = 0
    /\ pose_graph = EmptyPoseGraph
    /\ odometry = Identity
    /\ source_id = 0
    /\ target_id = 0
    /\ pcds_aligned = <<>>
    /\ opt_iter = 0
    /\ line_process = <<>>

\* the calls the notebook makes: init is the identity (coarse ICP), the coarse
\* result (fine ICP) or the RANSAC result (local_registration_by_icp)
InitICP ==
    /\ PipelineOff
    /\ ransac = RansacIdle
    /\ \E estimation \in {"PointToPoint", "PointToPlane"},
          target_normals \in BOOLEAN, init \in IcpUpdates :
          icp = [pc |-> "start", estimation |-> estimation,
                 target_normals |-> target_normals, init |-> init, T |-> init,
                 fitness |-> 0, rmse |-> 0, prev_fitness |-> 0, prev_rmse |-> 0,
                 iter |-> 0, result |-> NoResult]

\* the prerequisite check, then the evaluation of the initial guess
IcpStart ==
    /\ icp.pc = "start"
    /\ IF icp.estimation = "PointToPlane" /\ ~icp.target_normals
       THEN icp' = [icp EXCEPT !.pc = "error", !.result = MissingPrerequisite]
       ELSE \E f \in FitnessValues, r \in RmseValues :
               icp' = [icp EXCEPT !.pc = "iterate", !.fitness = f, !.rmse = r]
    /\ UNCHANGED <<pipelineVars, ransac>>

\* one iteration: correspondences, residual, pose update composed into the
\* estimate, convergence check
IcpIterate ==
    /\ icp.pc = "iterate"
    /\ \E update \in IcpUpdates, f \in FitnessValues, r \in RmseValues :
          LET T2   == Dot(update, icp.T)
              next == IF IcpConverged(icp.fitness, icp.rmse, f, r)
                      THEN "converged"
                      ELSE IF IcpExhausted(icp.iter + 1) THEN "exhausted"
                           ELSE "iterate"
          IN icp' = [icp EXCEPT
                        !.pc = next, !.T = T2, !.iter = icp.iter + 1,
                        !.prev_fitness = icp.fitness, !.prev_rmse = icp.rmse,
                        !.fitness = f, !.rmse = r,
                        !.result = IF next = "iterate" THEN NoResult
                                   ELSE [ok |-> TRUE, transformation |-> T2,
                                         fitness |-> f, rmse |-> r]]
    /\ UNCHANGED <<pipelineVars, ransac>>

NextICP ==
    \/ IcpStart
    \/ IcpIterate

SpecICP == InitICP /\ [][NextICP]_vars

IcpRunning == icp.pc \in {"start", "iterate"}

IcpTerminal == icp.pc \in {"converged", "exhausted"}

\* C7: ICP from any initial transform reaches a terminal state, converged
\* (relative change of fitness and of RMSE both below tolerance) or
\* budget-exhausted, after at most MaxIteration iterations, and in both it
\* returns the current estimate as a result, not an error
C7_IcpTerminatesWithResult ==
    /\ [](icp.iter <= MaxIteration)
    /\ [](icp.pc = "converged" =>
             IcpConverged(icp.prev_fitness, icp.prev_rmse, icp.fitness, icp.rmse))
    /\ [](icp.pc = "exhausted" => icp.iter = MaxIteration)
    /\ [](IcpTerminal => /\ icp.result.ok
                         /\ icp.result.transformation = icp.T)
    /\ [][icp.pc = "iterate" =>
             /\ icp'.iter = icp.iter + 1
             /\ icp'.pc \in {"iterate", "converged", "exhausted"}]_vars
    /\ [](IcpRunning => ENABLED NextICP)

C7_Witness ==
    /\ icp.pc = "exhausted"
    /\ icp.iter = MaxIteration
    /\ icp.T # icp.init
    /\ icp.init # Identity

----------------------------------------------------------------------------
(* RANSAC as a state machine (spec.md 4.4) *)

\* the candidates that pass the rejection checks: a candidate aligns its own
\* sample, so its fitness is positive
RansacCandidates ==
    [transformation : IcpUpdates, fitness : FitnessValues \ {0}, rmse : RmseValues]

\* the tie on fitness broken towards the higher RMSE
IsBetterHigherRmse(a, b) ==
    \/ a.fitness > b.fitness
    \/ (a.fitness = b.fitness /\ a.rmse > b.rmse)

\* higher fitness wins, ties broken by lower RMSE
IsBetter(a, b) ==
    \/ a.fitness > b.fitness
    \/ (a.fitness = b.fitness /\ a.rmse < b.rmse)

\* iterations the confidence bound asks for at the best inlier ratio so far
RequiredIterations(fitness) ==
    IF fitness >= 100 THEN 0
    ELSE IF fitness >= 50 THEN MaxRansacIteration - 1
         ELSE MaxRansacIteration

IdentityResult == [transformation |-> Identity, fitness |-> 0, rmse |-> 0]

InitRansac ==
    /\ PipelineOff
    /\ icp = IcpIdle
    /\ ransac = [pc |-> "run", iter |-> 0, has_best |-> FALSE,
                 best |-> IdentityResult, seen |-> {}, result |-> IdentityResult]

\* an iteration whose sample fails the checks (or is degenerate)
RansacReject ==
    /\ ransac.pc = "run"
    /\ ransac.iter < MaxRansacIteration
    /\ ransac' = [ransac EXCEPT !.iter = @ + 1]
    /\ UNCHANGED <<pipelineVars, icp>>

\* an iteration whose sample passes: the candidate is scored and the best kept
RansacAccept ==
    /\ ransac.pc = "run"
    /\ ransac.iter < MaxRansacIteration
    /\ \E c \in RansacCandidates :
          ransac' = [ransac EXCEPT
                        !.iter = @ + 1,
                        !.seen = @ \cup {c},
                        !.has_best = TRUE,
                        !.best = IF ~ransac.has_best \/ IsBetter(c, ransac.best)
                                 THEN c ELSE @]
    /\ UNCHANGED <<pipelineVars, icp>>

\* the budget is used up, or the confidence bound is met: return
RansacStop ==
    /\ ransac.pc = "run"
    /\ \/ ransac.iter >= MaxRansacIteration
       \/ (ransac.has_best /\ ransac.iter >= RequiredIterations(ransac.best.fitness))
    /\ ransac' = [ransac EXCEPT
                     !.pc = "done",
                     !.result = IF ransac.has_best THEN ransac.best
                                ELSE IdentityResult]
    /\ UNCHANGED <<pipelineVars, icp>>

NextRansac ==
    \/ RansacReject
    \/ RansacAccept
    \/ RansacStop

SpecRansac == InitRansac /\ [][NextRansac]_vars

\* C10: RANSAC runs at most MaxRansacIteration iterations; if no sample passed
\* the checks the result is the identity with fitness 0, otherwise it is the
\* best candidate seen (highest fitness, ties broken by lower RMSE)
C10_RansacReturnsBest ==
    /\ ransac.iter <= MaxRansacIteration
    /\ ransac.pc = "done" =>
          IF ransac.seen = {}
          THEN /\ ransac.result.transformation = Identity
               /\ ransac.result.fitness = 0
          ELSE /\ ransac.result \in ransac.seen
               /\ \A c \in ransac.seen :
                     /\ c.fitness <= ransac.result.fitness
                     /\ (c.fitness = ransac.result.fitness
                            => ransac.result.rmse <= c.rmse)

C10_Witness ==
    /\ ransac.pc = "done"
    /\ ransac.iter = MaxRansacIteration
    /\ \E a \in ransac.seen, b \in ransac.seen :
          a.fitness = b.fitness /\ a.rmse < b.rmse /\ ransac.result = a

C10_WitnessNoSample ==
    /\ ransac.pc = "done"
    /\ ransac.seen = {}

----------------------------------------------------------------------------
(* Properties of the combined clouds (cell 13 and cell 17), under Spec *)

\* the number of points of a cloud that come from fragment f
CountOf(cloud, f) ==
    Cardinality({k \in DOMAIN cloud.pts : cloud.pts[k].f = f})

\* a combining loop has run to its end and pcd_combined is the cloud shown
CombinedBuilt ==
    /\ pc \in {"cell13_loop", "cell17_loop"}
    /\ i >= Len(pcds) - 1

\* C11: the combined cloud, before optimization and after it, contains the
\* points of every one of the n fragments exactly once
C11_CombinedHasEachFragmentOnce ==
    CombinedBuilt =>
        \A f \in 0..(Len(pcds) - 1) :
            CountOf(heap[pcd_combined], f) = Len(heap[pcds[f + 1]].pts)

----------------------------------------------------------------------------
(* Edge indices while multiway_registration builds the graph, under Spec *)

\* C12 as stated: at every step of multiway_registration each edge in the
\* pose graph has source and target index below the current number of nodes
C12_EdgeIndicesBelowNodeCount ==
    InBuilder =>
        \A e \in Range(pose_graph.edges) :
            /\ e.source_node_id < Len(pose_graph.nodes)
            /\ e.target_node_id < Len(pose_graph.nodes)

\* C12: at every step of multiway_registration each edge has its source index
\* below the current number of nodes and its target index below the number
\* of fragments; on return both indices are below the number of nodes
C12_EdgeIndicesBounded ==
    InBuilder =>
        \A e \in Range(pose_graph.edges) :
            /\ e.source_node_id < Len(pose_graph.nodes)
            /\ e.target_node_id < Len(pcds)
            /\ pc = "cell15_ret" => e.target_node_id < Len(pose_graph.nodes)

\* in the loop, a loop-closure edge whose target node is not there yet
C12_Witness ==
    /\ pc = "cell15_loop"
    /\ \E e \in Range(pose_graph.edges) :
          /\ e.uncertain
          /\ e.source_node_id < Len(pose_graph.nodes)
          /\ e.target_node_id >= Len(pose_graph.nodes)

----------------------------------------------------------------------------
(* Normals before the operations that need them, under Spec *)

\* the files supply points and colors only
FilesWithoutNormals == \A k \in DOMAIN files : ~HasNormals(files[k])

\* estimate_normals has been run on the cloud
NormalsEstimated(cloud) == cloud.normals = "estimated"

\* C13: when the files supply only points and colors, FPFH feature
\* computation and every point-to-plane ICP call, in the pairwise and in the
\* multiway section, is invoked only on clouds on which estimate_normals has
\* been run before
C13_NormalsEstimatedBeforeUse ==
    FilesWithoutNormals =>
        /\ (pc = "cell5" /\ Len(files) >= 2) =>
              \A k \in 1..2 :
                  /\ NormalsEstimated(preprocess_pcd(files[k], VOXEL_SIZE).pcd_down)
                  /\ preprocess_pcd(files[k], VOXEL_SIZE).feature.ok
        /\ (pc = "cell11" /\ "result_ransac" \in names) =>
              /\ NormalsEstimated(heap[src_pcd])
              /\ NormalsEstimated(heap[tgt_pcd])
        /\ pc = "cell15_loop" =>
              /\ NormalsEstimated(heap[pcds[source_id + 1]])
              /\ NormalsEstimated(heap[pcds[target_id + 1]])

====
